---- MODULE Spec2Model ----
(***************************************************************************)
(* computed-property (src/index.js): a memoized accessor installed on an   *)
(* object, recomputed when a watched dependency path deep-changed.         *)
(*                                                                         *)
(* JavaScript values are records tagged with their type:                   *)
(*   [t |-> "undefined"], [t |-> "null"], [t |-> "number", v |-> n],       *)
(*   [t |-> "boolean", v |-> b], [t |-> "string", v |-> s],                *)
(*   [t |-> "function", v |-> behaviour], [t |-> "array", v |-> items],    *)
(*   [t |-> "object", f |-> function from the own keys to values].         *)
(* A dependency path "data.title" is the sequence <<"data", "title">> of   *)
(* its keys (the split on "." is done inside get-value / set-object).      *)
(***************************************************************************)
EXTENDS Integers, Sequences, FiniteSets, TLC

\* ------------------------------------------------------------------ bounds

\* Numbers stored on the object are 1..MaxNum.
MaxNum == 2

\* ------------------------------------------------------------------ values

Undefined == [t |-> "undefined"]
Null == [t |-> "null"]
Num(n) == [t |-> "number", v |-> n]
Str(s) == [t |-> "string", v |-> s]
Bool(b) == [t |-> "boolean", v |-> b]
Fn(g) == [t |-> "function", v |-> g]
Arr(s) == [t |-> "array", v |-> s]
Obj(fields) == [t |-> "object", f |-> fields]
EmptyFields == [k \in {} |-> Undefined]

\* JavaScript's typeof: null and arrays answer "object".
typeof(x) == IF x.t \in {"null", "array", "object"} THEN "object" ELSE x.t

\* x == undefined, the loose comparison of line 69.
looseUndefined(x) == x.t \in {"undefined", "null"}

\* x === y on primitives (objects are compared with deepEqual, never here).
strictEqual(x, y) ==
    /\ x.t = y.t
    /\ x.t # "object"
    /\ (x.t \in {"undefined", "null"} \/ x.v = y.v)

\* Truthiness of the values the model stores (no 0, "" or NaN among them).
truthy(x) == ~(x.t \in {"undefined", "null"}) /\ ~(x.t = "boolean" /\ ~x.v)

\* x == y of JavaScript on the values that reach it from deepEqual: at least
\* one side is undefined or null, or both are primitives.
looseEqual(x, y) ==
    IF looseUndefined(x) \/ looseUndefined(y)
    THEN looseUndefined(x) /\ looseUndefined(y)
    ELSE strictEqual(x, y)

\* deep-equal, default (non-strict) options, as called on line 120.
RECURSIVE deepEqual(_, _)
deepEqual(x, y) ==
    IF strictEqual(x, y) THEN TRUE
    ELSE IF ~truthy(x) \/ ~truthy(y) \/ (typeof(x) # "object" /\ typeof(y) # "object")
    THEN looseEqual(x, y)
    ELSE /\ x.t = "object"
         /\ y.t = "object"
         /\ DOMAIN x.f = DOMAIN y.f
         /\ \A k \in DOMAIN x.f : deepEqual(x.f[k], y.f[k])

\* lodash cloneDeep: a structural copy, rebuilt key by key.
RECURSIVE cloneDeep(_)
cloneDeep(x) ==
    IF x.t = "object"
    THEN Obj([k \in DOMAIN x.f |-> cloneDeep(x.f[k])])
    ELSE x

\* get-value: walk the keys of the path; a missing key, or a step through a
\* value that is no object, answers undefined.
RECURSIVE get(_, _)
get(o, path) ==
    IF path = <<>> THEN o
    ELSE IF o.t # "object" THEN Undefined
    ELSE IF Head(path) \notin DOMAIN o.f THEN Undefined
    ELSE get(o.f[Head(path)], Tail(path))

\* One own key written: o[k] = x.
setKey(o, k, x) == Obj([j \in DOMAIN o.f \cup {k} |-> IF j = k THEN x ELSE o.f[j]])

\* set-object: walk the keys of the path, creating an object where a step is
\* no object, and assign at the last key.
RECURSIVE set(_, _, _)
set(o, path, x) ==
    IF Len(path) = 1 THEN setKey(o, Head(path), x)
    ELSE LET k == Head(path)
             child == IF k \in DOMAIN o.f /\ o.f[k].t = "object"
                      THEN o.f[k]
                      ELSE Obj(EmptyFields)
         IN  setKey(o, k, set(child, Tail(path), x))

\* delete o[k] at the end of a path whose parent exists.
RECURSIVE deletePath(_, _)
deletePath(o, path) ==
    IF Len(path) = 1
    THEN Obj([j \in DOMAIN o.f \ {Head(path)} |-> o.f[j]])
    ELSE setKey(o, Head(path), deletePath(o.f[Head(path)], Tail(path)))

\* ----------------------------------------------------- the program's code

\* The property name the accessor is installed under.
name == "p"

\* [].concat.apply([], dependencies), line 60: undefined or null gives no
\* arguments, an array is concatenated item by item (an array item is
\* spread, any other item is appended); any other value makes apply throw.
RECURSIVE concatItems(_)
concatItems(items) ==
    IF items = <<>> THEN <<>>
    ELSE LET it == Head(items)
         IN  (IF it.t = "array" THEN it.v ELSE <<it>>) \o concatItems(Tail(items))

flattenThrows(d) == d.t \notin {"undefined", "null", "array"}

flatten(d) == IF d.t = "array" THEN concatItems(d.v) ELSE <<>>

\* initWatch, lines 88-101: clone the value at every dependency path into
\* prev; watching is on exactly when the list is not empty.
RECURSIVE initWatchFrom(_, _, _)
initWatchFrom(o, pv, ds) ==
    IF ds = <<>> THEN pv
    ELSE initWatchFrom(o, set(pv, Head(ds).v, cloneDeep(get(o, Head(ds).v))), Tail(ds))

\* initWatch with "watch = true" moved out of the length test.
initWatchAlways(o, pv, ds) ==
    [watch |-> TRUE, prev |-> IF Len(ds) > 0 THEN initWatchFrom(o, pv, ds) ELSE pv]

initWatch(o, pv, ds) ==
    [watch |-> Len(ds) > 0, prev |-> IF Len(ds) > 0 THEN initWatchFrom(o, pv, ds) ELSE pv]

\* A path through the property's own name: get(current, dep) on line 119
\* reads current[name], which is the installed getter itself.
ownNameDep(dep) == Head(dep) = name

\* changed, lines 113-126: every path is visited; a path whose current value
\* does not deepEqual its snapshot sets the result and refreshes the snapshot.
\* changed runs only with prev[name] neither undefined nor null (line 69), so
\* at a path through the own name the getter re-enters itself, runs changed
\* again over paths it has just refreshed, reaches the same path and never
\* returns: the read ends in the runtime's stack overflow (overflow), with
\* the snapshots refreshed so far kept.
RECURSIVE changedFrom(_, _, _, _)
changedFrom(pv, current, ds, result) ==
    IF ds = <<>> THEN [result |-> result, prev |-> pv, overflow |-> FALSE]
    ELSE LET dep == Head(ds).v
             value == get(current, dep)
         IN  IF ownNameDep(dep) THEN [result |-> result, prev |-> pv, overflow |-> TRUE]
             ELSE IF ~deepEqual(get(pv, dep), value)
             THEN changedFrom(set(pv, dep, cloneDeep(value)), current, Tail(ds), TRUE)
             ELSE changedFrom(pv, current, Tail(ds), result)

changed(pv, current, ds) == changedFrom(pv, current, ds, FALSE)

\* property.get.call(this): the caller's getter, one of five behaviours. The
\* "derived" getter builds a string from this.a, as the documented getter
\* builds one from this.dirname, this.name and this.ext; the "strict" getter
\* does the same and throws when this.a is undefined.
callGet(g, this) ==
    CASE g = "derived" -> [threw |-> FALSE, value |-> Str(<<"path", get(this, <<"a">>)>>)]
      [] g = "strict" ->
           IF get(this, <<"a">>).t = "undefined" THEN [threw |-> TRUE, value |-> Undefined]
           ELSE [threw |-> FALSE, value |-> Str(<<"path", get(this, <<"a">>)>>)]
      [] g = "null" -> [threw |-> FALSE, value |-> Null]
      [] g = "undefined" -> [threw |-> FALSE, value |-> Undefined]
      [] OTHER -> [threw |-> TRUE, value |-> Undefined]

\* The installed getter, lines 68-73. The || of line 69 short-circuits:
\* changed runs only when watching is on and prev[name] is not undefined/null.
memoGet(pv, this, ds, w, g) ==
    LET cached == get(pv, <<name>>)
        compared == w /\ ~looseUndefined(cached)
        ch == IF compared THEN changed(pv, this, ds)
              ELSE [result |-> FALSE, prev |-> pv, overflow |-> FALSE]
        recompute == ~w \/ looseUndefined(cached) \/ ch.result
        out == callGet(g, this)
    IN  IF ch.overflow
        THEN [prev |-> ch.prev, calls |-> 0, threw |-> "RangeError", ret |-> Undefined]
        ELSE IF ~recompute
        THEN [prev |-> ch.prev, calls |-> 0, threw |-> "none", ret |-> get(ch.prev, <<name>>)]
        ELSE IF out.threw
        THEN [prev |-> ch.prev, calls |-> 1, threw |-> "GetterError", ret |-> Undefined]
        ELSE [prev |-> setKey(ch.prev, name, out.value), calls |-> 1, threw |-> "none",
              ret |-> out.value]

\* The error of line 57.
expectedObjectError(x) ==
    [kind |-> "Error", message |-> <<"Expected property to be a object but got ", typeof(x)>>]

\* An error raised by the runtime, not by the installer.
typeError == [kind |-> "TypeError", message |-> <<>>]

noError == [kind |-> "none", message |-> <<>>]

noAccessor == [defined |-> FALSE]

\* A throw that comes after Object.defineProperty has run: obj[name] is
\* already replaced when the call fails.
notInstalledAfterDefine(o, acc, e) ==
    [err |-> e,
     obj |-> IF name \in DOMAIN o.f THEN deletePath(o, <<name>>) ELSE o,
     accessor |-> [defined |-> TRUE, configurable |-> TRUE, enumerable |-> TRUE,
                   get |-> FALSE, set |-> Undefined],
     installed |-> FALSE,
     prev |-> Obj(EmptyFields), dependencies |-> <<>>, watch |-> FALSE, getter |-> "none",
     calls |-> 0]

\* What a call leaves when it throws (lines 57, 60, 68), all before the
\* Object.defineProperty of line 65 runs: nothing installed.
notInstalled(o, acc, e) ==
    [err |-> e, obj |-> o, accessor |-> acc, installed |-> FALSE,
     prev |-> Obj(EmptyFields), dependencies |-> <<>>, watch |-> FALSE, getter |-> "none",
     calls |-> 0]

\* computedProperty, lines 51-76, on the object o whose accessor under name
\* is acc, called with the third argument d and the fourth argument p.
computedProperty(o, acc, d, p) ==
    LET shortcut == typeof(d) = "function"
        property == IF shortcut THEN d ELSE p
        deps0 == IF shortcut THEN Arr(<<>>) ELSE d
    IN  IF typeof(property) # "object" THEN notInstalled(o, acc, expectedObjectError(property))
        ELSE IF flattenThrows(deps0) THEN notInstalled(o, acc, typeError)
        ELSE LET ds == flatten(deps0)
                 iw == initWatch(o, setKey(Obj(EmptyFields), name, Undefined), ds)
             IN  IF property.t = "null" THEN notInstalled(o, acc, typeError)
                 ELSE LET pget == IF property.t = "object" THEN get(property, <<"get">>) ELSE Undefined
                          pset == IF property.t = "object" THEN get(property, <<"set">>) ELSE Undefined
                      IN  [err |-> noError,
                           obj |-> IF name \in DOMAIN o.f THEN deletePath(o, <<name>>) ELSE o,
                           accessor |-> [defined |-> TRUE, configurable |-> TRUE,
                                         enumerable |-> TRUE, get |-> truthy(pget),
                                         set |-> pset],
                           installed |-> TRUE,
                           prev |-> iw.prev, dependencies |-> ds, watch |-> iw.watch,
                           getter |-> IF truthy(pget) THEN pget.v ELSE "none",
                           calls |-> 0]

\* The setter of line 74 is property.set itself: a write runs the caller's
\* setter on the object (effect e, applied by the caller's code) and nothing
\* of the closure.
writeAccessor(pv, o2) == [prev |-> pv, obj |-> o2, calls |-> 0]

\* ------------------------------------------------------------------ inputs

PathA == <<"a">>
PathTitle == <<"data", "title">>
PathOther == <<"data", "other">>
PathData == <<"data">>
PathOwn == <<name>>

Nums == {Num(n) : n \in 1..MaxNum}

\* The values the caller assigns to data.title: two, so that one can replace
\* the other.
Titles == {Num(1), Num(2)}

\* An object from a choice of values, a key left out where the choice is
\* undefined.
mkObj(m) == Obj([k \in {j \in DOMAIN m : m[j].t # "undefined"} |-> m[k]])

DataObjects ==
    {mkObj([title |-> ti, other |-> ot]) : ti \in {Undefined, Num(1)}, ot \in {Undefined, Num(1)}}

\* The objects a caller may hand to the installer.
Objects ==
    {mkObj([a |-> va, data |-> vd, p |-> vp]) :
        va \in {Undefined, Null} \cup Nums,
        vd \in {Undefined} \cup DataObjects,
        vp \in {Undefined, Num(1)}}

Getters == {"derived", "strict", "null", "undefined", "throws"}

\* The values passed as dependencies: omitted, lists (flat, nested, empty),
\* a function (the three-argument call) and a number.
DepArgs ==
    { Undefined, Arr(<<>>), Arr(<<Arr(<<>>), Arr(<<>>)>>),
      Arr(<<Str(PathA)>>), Arr(<<Str(PathTitle)>>),
      Arr(<<Arr(<<Str(PathA)>>), Str(PathTitle)>>),
      Arr(<<Str(PathOwn)>>), Arr(<<Str(PathData)>>),
      Fn("derived"), Num(1) }

\* The descriptors: a getter of each behaviour, a getter with a setter, a
\* setter alone, neither.
Descriptors ==
    {Obj([get |-> Fn(g)]) : g \in Getters}
      \cup {Obj([get |-> Fn("derived"), set |-> Fn("setter")]),
            Obj([set |-> Fn("setter")]), Obj(EmptyFields)}

\* The values passed as property.
PropArgs ==
    {Undefined, Null, Num(1), Str("s"), Bool(TRUE), Fn("derived")} \cup Descriptors

\* What the caller's code (outside the library, or inside a setter) does to
\* the object: assign or delete a, data.title, data.other, data.
Effects ==
    {[op |-> "set", path |-> PathA, value |-> x] : x \in {Null} \cup Nums}
      \cup {[op |-> "set", path |-> PathTitle, value |-> x] : x \in Titles}
      \cup {[op |-> "set", path |-> PathOther, value |-> Num(1)],
            [op |-> "set", path |-> PathData, value |-> Obj(EmptyFields)]}
      \cup {[op |-> "delete", path |-> q, value |-> Undefined] :
                q \in {PathA, PathTitle, PathOther, PathData}}

\* What the caller's setter does to the object: this.a = 1, this.a = 2,
\* this.data.other = 1 (or nothing, see Write).
SetterEffects ==
    {[op |-> "set", path |-> PathA, value |-> x] : x \in Nums}
      \cup {[op |-> "set", path |-> PathOther, value |-> Num(1)]}

\* Structural identity of two values.
RECURSIVE identical(_, _)
identical(x, y) ==
    /\ x.t = y.t
    /\ IF x.t = "object"
       THEN DOMAIN x.f = DOMAIN y.f /\ \A k \in DOMAIN x.f : identical(x.f[k], y.f[k])
       ELSE x.t \in {"undefined", "null"} \/ x.v = y.v

\* The path names an own key of an object.
present(o, path) ==
    /\ get(o, SubSeq(path, 1, Len(path) - 1)).t = "object"
    /\ path[Len(path)] \in DOMAIN get(o, SubSeq(path, 1, Len(path) - 1)).f

\* The effect can run (the parent of the path is an object) and changes o.
applicable(o, e) ==
    IF e.op = "set"
    THEN /\ get(o, SubSeq(e.path, 1, Len(e.path) - 1)).t = "object"
         /\ ~identical(get(o, e.path), e.value)
         /\ (e.path = PathData => ~present(o, PathData))
    ELSE present(o, e.path)

apply(o, e) == IF e.op = "set" THEN set(o, e.path, e.value) ELSE deletePath(o, e.path)

\* Some watched path holds another value in o2 than in o1.
watchedChange(ds, o1, o2) ==
    \E i \in 1..Len(ds) : ~identical(get(o1, ds[i].v), get(o2, ds[i].v))

\* What a change of a watched path did: a number appeared where the path
\* was absent, a number vanished, a number replaced a number, a container
\* was changed inside, or other (null on one side, a container appeared or
\* vanished).
changeKind(ds, o1, o2) ==
    LET i == CHOOSE j \in 1..Len(ds) : ~identical(get(o1, ds[j].v), get(o2, ds[j].v))
        old == get(o1, ds[i].v)
        new == get(o2, ds[i].v)
    IN  CASE old.t = "undefined" /\ new.t = "number" -> "appear"
          [] old.t = "number" /\ new.t = "undefined" -> "vanish"
          [] old.t = "number" /\ new.t = "number" -> "replace"
          [] old.t = "object" /\ new.t = "object" -> "inside"
          [] OTHER -> "other"

\* The watched paths that hold no value in o.
absentPaths(ds, o) == {ds[i].v : i \in {j \in 1..Len(ds) : get(o, ds[j].v).t = "undefined"}}

\* The watched paths that hold another value in o2 than in o1.
changedPaths(ds, o1, o2) ==
    {ds[i].v : i \in {j \in 1..Len(ds) : ~identical(get(o1, ds[j].v), get(o2, ds[j].v))}}

\* One more on a count kept as "none", "one", "many".
oneMore(c) == IF c = "none" THEN "one" ELSE "many"

\* ------------------------------------------------------------------- state

VARIABLES
    obj,            \* the target object's data properties
    accessor,       \* the accessor defined on obj under name, if any
    installed,      \* computedProperty returned normally
    prev,           \* the closure's storage object (line 61)
    dependencies,   \* the closure's flattened dependency list (line 60)
    watch,          \* the closure's watch flag (line 63)
    getter,         \* the behaviour of property.get ("none" when absent)
    depsArg,        \* the third argument of the last call of computedProperty
    propArg,        \* the fourth argument of the last call of computedProperty
    lastOp,         \* the operation that led to this state
    err,            \* the error the last operation raised
    calls,          \* invocations of property.get made by the last operation
    ret,            \* the value the last read returned
    ret0,           \* after a read: the value the read before it returned
    reads,          \* reads since installation: "none", "first" (one), "more"
    wchg,           \* operations since the previous read that changed a watched
                    \* path: "none", "one", "many"
    wpaths,         \* the watched paths they changed, when each operation
                    \* changed a path of its own and there were at most two
    chg,            \* when there was one: what it did to the watched path
    absent,         \* the dependency paths absent from obj ever since installation
    uchg,           \* an operation since the previous read changed the object and no watched path
    lastGot,        \* the last value property.get returned since installation
    second,         \* the closure of a second computed property on the same object
    chgP,           \* with two properties: operations since the last read of the
                    \* first that changed the common path: "none", "one", "many"
    chgQ            \* the same since the last read of the second

vars == <<obj, accessor, installed, prev, dependencies, watch, getter, depsArg, propArg,
          lastOp, err, calls, ret, ret0, reads, wchg, wpaths, chg, absent, uchg,
          lastGot, second, chgP, chgQ>>

\* The state kept for a second property.
varsTwo == <<second, chgP, chgQ>>

\* No second property: the closure of a call that has not been made.
noSecond ==
    [installed |-> FALSE, prev |-> Obj(EmptyFields), dependencies |-> <<>>, watch |-> FALSE,
     getter |-> "none"]

Init ==
    /\ obj \in Objects
    /\ accessor = noAccessor
    /\ installed = FALSE
    /\ prev = Obj(EmptyFields)
    /\ dependencies = <<>>
    /\ watch = FALSE
    /\ getter = "none"
    /\ depsArg = Undefined
    /\ propArg = Undefined
    /\ lastOp = "init"
    /\ err = noError
    /\ calls = 0
    /\ ret = Undefined
    /\ ret0 = Undefined
    /\ reads = "none"
    /\ wchg = "none"
    /\ wpaths = {}
    /\ chg = "none"
    /\ absent = {}
    /\ uchg = FALSE
    /\ lastGot = Undefined
    /\ second = noSecond
    /\ chgP = "none"
    /\ chgQ = "none"

\* computedProperty(obj, name, d, p); a three-argument call passes no p.
Install ==
    /\ ~installed
    /\ \E d \in DepArgs, p \in PropArgs :
        /\ d.t = "function" => p = Undefined
        /\ depsArg' = d
        /\ propArg' = p
        /\ LET r == computedProperty(obj, accessor, d, p)
           IN  /\ obj' = r.obj
               /\ accessor' = r.accessor
               /\ installed' = r.installed
               /\ prev' = r.prev
               /\ dependencies' = r.dependencies
               /\ watch' = r.watch
               /\ getter' = r.getter
               /\ err' = r.err
               /\ calls' = r.calls
               /\ absent' = absentPaths(r.dependencies, r.obj)
    /\ lastOp' = "install"
    /\ UNCHANGED <<ret, ret0, reads, wchg, wpaths, chg, uchg, lastGot>>
    /\ UNCHANGED varsTwo

\* The bookkeeping of an operation that takes obj to o2 between two reads.
noteChange(o2) ==
    LET w == watchedChange(dependencies, obj, o2)
        fresh == lastOp = "read"
        since == IF fresh THEN "none" ELSE wchg
    IN  /\ wchg' = IF w THEN oneMore(since) ELSE since
        /\ wpaths' = CASE ~w -> (IF fresh THEN {} ELSE wpaths)
                        [] w /\ since = "none" -> changedPaths(dependencies, obj, o2)
                        [] w /\ since = "one" /\ Cardinality(wpaths) = 1
                             /\ wpaths \cap changedPaths(dependencies, obj, o2) = {} ->
                               wpaths \cup changedPaths(dependencies, obj, o2)
                        [] OTHER -> {}
        /\ chg' = IF w THEN (IF since = "none" THEN changeKind(dependencies, obj, o2) ELSE "none")
                  ELSE IF fresh THEN "none" ELSE chg
        /\ absent' = absent \cap absentPaths(dependencies, o2)
        /\ uchg' = (((~fresh) /\ uchg) \/ (~w /\ ~identical(obj, o2)))

\* The caller's code changes the object directly.
Mutate ==
    /\ installed
    /\ \E e \in Effects :
        /\ applicable(obj, e)
        /\ obj' = apply(obj, e)
        /\ noteChange(apply(obj, e))
    /\ lastOp' = "mutate"
    /\ err' = noError
    /\ calls' = 0
    /\ ret0' = Undefined
    /\ UNCHANGED <<accessor, installed, prev, dependencies, watch, getter, depsArg, propArg,
                   ret, reads, lastGot>>
    /\ UNCHANGED varsTwo

\* obj[name] = x with a setter installed: the caller's setter runs, changing
\* the object or not.
Write ==
    /\ installed
    /\ truthy(accessor.set)
    /\ \E o2 \in {obj} \cup {apply(obj, e) : e \in {x \in SetterEffects : applicable(obj, x)}} :
        LET r == writeAccessor(prev, o2)
        IN  /\ obj' = r.obj
            /\ prev' = r.prev
            /\ calls' = r.calls
            /\ noteChange(o2)
    /\ lastOp' = "write"
    /\ err' = noError
    /\ ret0' = Undefined
    /\ UNCHANGED <<accessor, installed, dependencies, watch, getter, depsArg, propArg,
                   ret, reads, lastGot>>
    /\ UNCHANGED varsTwo

\* obj[name] is read: the installed getter runs (an accessor without a getter
\* reads as undefined).
Read ==
    /\ installed
    /\ LET r == IF accessor.get
                THEN memoGet(prev, obj, dependencies, watch, getter)
                ELSE [prev |-> prev, calls |-> 0, threw |-> "none", ret |-> Undefined]
       IN  /\ prev' = r.prev
           /\ calls' = r.calls
           /\ ret' = r.ret
           /\ err' = [kind |-> r.threw, message |-> <<>>]
           /\ lastGot' = IF r.calls = 1 /\ r.threw = "none" THEN r.ret ELSE lastGot
    /\ ret0' = ret
    /\ reads' = IF reads = "none" THEN "first" ELSE "more"
    /\ lastOp' = "read"
    /\ wchg' = IF lastOp = "read" THEN "none" ELSE wchg
    /\ wpaths' = IF lastOp = "read" THEN {} ELSE wpaths
    /\ chg' = IF lastOp = "read" THEN "none" ELSE chg
    /\ uchg' = IF lastOp = "read" THEN FALSE ELSE uchg
    /\ UNCHANGED <<obj, accessor, installed, dependencies, watch, getter, depsArg, propArg,
                   absent>>
    /\ UNCHANGED varsTwo

Next == Install \/ Mutate \/ Write \/ Read

Spec == Init /\ [][Next]_vars

\* ---------------------------------------- two properties on one object

\* The objects and the caller's changes with two properties installed: a
\* holds a number or is absent, data.title likewise.
TwoObjects ==
    {mkObj([a |-> va, data |-> vd]) :
        va \in {Undefined} \cup Nums, vd \in {Undefined, mkObj([title |-> Num(1)])}}

TwoEffects ==
    {[op |-> "set", path |-> PathA, value |-> x] : x \in Nums}
      \cup {[op |-> "set", path |-> PathTitle, value |-> x] : x \in Titles}
      \cup {[op |-> "delete", path |-> q, value |-> Undefined] : q \in {PathA, PathTitle}}

\* Dependency lists that share the path 'a'.
CommonDeps == {Arr(<<Str(PathA)>>), Arr(<<Str(PathA), Str(PathTitle)>>)}

InitTwo == Init /\ obj \in TwoObjects

\* Two calls of computedProperty on the same object, under two names, each
\* call creating its own prev (line 61). The second closure is kept as the
\* first is; its store holds its cached value under its own name, written
\* name here as well, no dependency list of CommonDeps naming either property.
InstallTwo ==
    /\ ~installed
    /\ \E d1 \in CommonDeps, d2 \in CommonDeps, g1 \in {"derived"}, g2 \in {"derived"} :
        LET r1 == computedProperty(obj, accessor, d1, Obj([get |-> Fn(g1)]))
            r2 == computedProperty(r1.obj, noAccessor, d2, Obj([get |-> Fn(g2)]))
        IN  /\ obj' = r2.obj
            /\ accessor' = r1.accessor
            /\ installed' = r1.installed
            /\ prev' = r1.prev
            /\ dependencies' = r1.dependencies
            /\ watch' = r1.watch
            /\ getter' = r1.getter
            /\ err' = r2.err
            /\ calls' = r1.calls + r2.calls
            /\ depsArg' = d1
            /\ propArg' = Obj([get |-> Fn(g1)])
            /\ second' = [installed |-> r2.installed, prev |-> r2.prev,
                          dependencies |-> r2.dependencies, watch |-> r2.watch,
                          getter |-> r2.getter]
    /\ lastOp' = "install"
    /\ UNCHANGED <<ret, ret0, reads, wchg, wpaths, chg, absent, uchg, lastGot, chgP, chgQ>>

\* The caller's code changes the object.
MutateTwo ==
    /\ installed /\ second.installed
    /\ \E e \in TwoEffects :
        /\ applicable(obj, e)
        /\ obj' = apply(obj, e)
        /\ LET w == ~identical(get(obj, PathA), get(apply(obj, e), PathA))
           IN  /\ chgP' = IF w THEN oneMore(chgP) ELSE chgP
               /\ chgQ' = IF w THEN oneMore(chgQ) ELSE chgQ
    /\ lastOp' = "mutate"
    /\ err' = noError
    /\ calls' = 0
    /\ UNCHANGED <<accessor, installed, prev, dependencies, watch, getter, depsArg, propArg,
                   ret, ret0, reads, wchg, wpaths, chg, absent, uchg, lastGot, second>>

\* The first property is read.
ReadP ==
    /\ installed /\ second.installed
    /\ LET r == memoGet(prev, obj, dependencies, watch, getter)
       IN  /\ prev' = r.prev
           /\ calls' = r.calls
           /\ ret' = r.ret
           /\ err' = [kind |-> r.threw, message |-> <<>>]
           /\ lastGot' = IF r.calls = 1 /\ r.threw = "none" THEN r.ret ELSE lastGot
    /\ reads' = IF reads = "none" THEN "first" ELSE "more"
    /\ lastOp' = "read"
    /\ chgP' = "none"
    /\ UNCHANGED <<obj, accessor, installed, dependencies, watch, getter, depsArg, propArg,
                   ret0, wchg, wpaths, chg, absent, uchg, second, chgQ>>

\* The second property is read.
ReadQ ==
    /\ installed /\ second.installed
    /\ LET r == memoGet(second.prev, obj, second.dependencies, second.watch, second.getter)
       IN  /\ second' = [second EXCEPT !.prev = r.prev]
           /\ calls' = r.calls
           /\ ret' = r.ret
           /\ err' = [kind |-> r.threw, message |-> <<>>]
    /\ lastOp' = "read2"
    /\ chgQ' = "none"
    /\ UNCHANGED <<obj, accessor, installed, prev, dependencies, watch, getter, depsArg,
                   propArg, ret0, reads, wchg, wpaths, chg, absent, uchg, lastGot, chgP>>

NextTwo == InstallTwo \/ MutateTwo \/ ReadP \/ ReadQ

SpecTwo == InitTwo /\ [][NextTwo]_vars

\* ------------------------------------------------------------------ claims

\* The last operation was a read through the installed getter, and a read
\* came before it.
secondRead == lastOp = "read" /\ reads = "more" /\ accessor.get

\* What the caller's getter answers on the object as it is now.
freshValue == callGet(getter, obj).value

\* The dependencies arguments that flatten to the empty list.
EmptyDepArgs == {Undefined, Arr(<<>>), Arr(<<Arr(<<>>), Arr(<<>>)>>)}

\* C1 (memoization): with a non-empty dependency list, when no watched path
\* changed between two consecutive reads, the second read does not invoke
\* get and returns the value of the first. Stated for a second read that
\* returns and a first read that returned a value other than undefined and
\* null.
C1_Memoization ==
    (secondRead /\ watch /\ wchg = "none" /\ err.kind = "none" /\ ~looseUndefined(ret0))
        => (calls = 0 /\ identical(ret, ret0))

\* C2 (invalidation): with a non-empty dependency list, when exactly one
\* operation between two consecutive reads changed the value at a watched
\* path (a number appeared, vanished or replaced another number), the second
\* read invokes get and returns get's result on the object as it is now.
C2_Invalidation ==
    (secondRead /\ watch /\ wchg = "one" /\ chg \in {"appear", "vanish", "replace"})
        => (calls = 1 /\ (err.kind = "none" => identical(ret, freshValue)))

\* C3 (no watching, always fresh): when the dependencies argument flattens to
\* the empty list (omitted, [], [[], []]), every read invokes get exactly
\* once and returns that invocation's result (or raises what get raised).
C3_NoWatchAlwaysFresh ==
    (lastOp = "read" /\ accessor.get /\ depsArg \in EmptyDepArgs)
        => /\ calls = 1
           /\ err.kind = "none" => (~callGet(getter, obj).threw /\ identical(ret, freshValue))
           /\ err.kind # "none" => (callGet(getter, obj).threw /\ err.kind = "GetterError")

\* C3's case: two consecutive reads with nothing changed in between, the
\* dependencies a list of empty lists, and the second read invoked get.
C3_Witness ==
    /\ secondRead
    /\ depsArg = Arr(<<Arr(<<>>), Arr(<<>>)>>)
    /\ getter = "derived"
    /\ wchg = "none"
    /\ ~uchg
    /\ calls = 1
    /\ identical(ret, ret0)

\* C4 (unwatched changes ignored): with a non-empty dependency list, when the
\* object changed between two consecutive reads and no watched path did, the
\* second read does not invoke get and returns the value cached by the first.
\* Stated for a second read that returns and a first read that cached a
\* value other than undefined and null.
C4_UnwatchedIgnored ==
    (secondRead /\ watch /\ wchg = "none" /\ uchg /\ err.kind = "none" /\ ~looseUndefined(ret0))
        => (calls = 0 /\ identical(ret, ret0))

\* C5 (shortcut form): a three-argument call whose third argument is a
\* function f installs the accessor with an empty dependency list and f as
\* its getter.
C5_Shortcut ==
    (lastOp = "install" /\ depsArg.t = "function")
        => /\ installed
           /\ err.kind = "none"
           /\ accessor.defined
           /\ accessor.get
           /\ dependencies = <<>>
           /\ ~watch
           /\ getter = depsArg.v

\* C6 (descriptor validation): a call whose property argument is undefined,
\* null, a number, a string or a boolean fails with the installer's own
\* error, whose message names the type received.
C6_DescriptorValidation ==
    (lastOp = "install" /\ depsArg.t # "function"
        /\ propArg.t \in {"undefined", "null", "number", "string", "boolean"})
        => /\ ~installed
           /\ err.kind = "Error"
           /\ err.message = expectedObjectError(propArg).message

\* C7 (atomic installation): every call of computedProperty either defines
\* the accessor on obj and raises nothing, or raises an error and leaves obj
\* and the property under name as they were.
C7_AtomicInstall ==
    [][lastOp' = "install" =>
          \/ (installed' /\ err'.kind = "none" /\ accessor'.defined
                /\ accessor'.configurable /\ accessor'.enumerable
                /\ name \notin DOMAIN obj'.f)
          \/ (~installed' /\ err'.kind # "none" /\ obj' = obj /\ accessor' = accessor)]_vars

\* C7's case: a call failed after the validation of line 56 (property is
\* null) on an object that holds a value under name, and the value is kept.
C7_Witness ==
    /\ lastOp = "install"
    /\ propArg = Null
    /\ depsArg = Arr(<<Str(PathOwn)>>)
    /\ err.kind = "TypeError"
    /\ ~installed
    /\ ~accessor.defined
    /\ name \in DOMAIN obj.f

\* C8 (setter pass-through): a write leaves the storage object unchanged and
\* invokes no get; and with a non-empty dependency list, a read that follows
\* a write, no watched path changed since the read before, does not invoke
\* get and returns the value cached before. Stated for a read that returns
\* and a cached value other than undefined and null.
C8_SetterPassThrough ==
    [][/\ lastOp' = "write" => (prev' = prev /\ calls' = 0)
       /\ (lastOp = "write" /\ lastOp' = "read" /\ watch /\ accessor.get /\ reads # "none"
             /\ wchg = "none" /\ ~looseUndefined(ret) /\ err'.kind = "none")
            => (calls' = 0 /\ identical(ret', ret))]_vars

\* C9 (pull-based evaluation): installation, writes and mutations invoke no
\* get, a read invokes it at most once, and the first read after installation
\* invokes it exactly once.
C9_PullBased ==
    /\ lastOp # "read" => calls = 0
    /\ lastOp = "read" => calls <= 1
    /\ (lastOp = "read" /\ reads = "first" /\ accessor.get) => calls = 1

\* The dependency list names no path through the property's own name.
noOwnNameDep == \A i \in 1..Len(dependencies) : ~ownNameDep(dependencies[i].v)

\* C10 (missing dependency paths): installing with a watched path that is
\* absent raises nothing, and reading raises nothing of its own; while every
\* watched path has been absent since installation a second read does not
\* recompute; and a read after a watched path came into existence with a
\* number, or after a watched path holding a number was removed, recomputes.
C10_MissingPaths ==
    /\ (lastOp = "install" /\ depsArg.t = "array" /\ propArg \in Descriptors) => installed
    /\ (lastOp = "read" /\ noOwnNameDep /\ absent # {}) => err.kind \in {"none", "GetterError"}
    /\ (secondRead /\ watch /\ noOwnNameDep /\ Cardinality(absent) = Len(dependencies)
          /\ ~looseUndefined(ret0))
         => calls = 0
    /\ (secondRead /\ watch /\ wchg = "one" /\ chg \in {"appear", "vanish"}) => calls = 1

\* C11 (cached-value invariant): once installed, the value stored under the
\* property's own name in the storage object is undefined or is the last
\* value get returned; in particular it is undefined until get has returned.
C11_CachedValue ==
    installed => \/ get(prev, <<name>>).t = "undefined"
                 \/ identical(get(prev, <<name>>), lastGot)

\* Every dependency's snapshot deep-equals the object's value at its path.
snapshotsFresh ==
    \A i \in 1..Len(dependencies) :
        deepEqual(get(prev, dependencies[i].v), get(obj, dependencies[i].v))

\* C12 (snapshot freshness): after a read that invoked get (the first read
\* after installation included) every dependency's snapshot deep-equals the
\* object's current value at its path, and further reads keep it so. Stated
\* for a getter that returns a string and for dependency lists that do not
\* name the property itself.
C12_SnapshotFreshness ==
    [][(lastOp' = "read" /\ getter = "derived" /\ watch /\ noOwnNameDep
          /\ (calls' = 1 \/ (lastOp = "read" /\ snapshotsFresh)))
         => snapshotsFresh']_vars

\* C13 (full snapshot refresh): every read of a watched property replaces
\* the snapshot of every dependency whose current value does not deep-equal
\* it by the current value; and when two watched paths were changed, once
\* each, between two reads, the second read invokes get once and a read
\* right after it invokes get zero times. Stated for a getter that returns
\* a string and for dependency lists that do not name the property itself.
C13_FullRefresh ==
    [][(lastOp' = "read" /\ getter = "derived" /\ watch /\ noOwnNameDep)
         => /\ \A i \in 1..Len(dependencies) :
                  ~deepEqual(get(prev, dependencies[i].v), get(obj, dependencies[i].v))
                    => identical(get(prev', dependencies[i].v), get(obj, dependencies[i].v))
            /\ (reads' = "more" /\ Cardinality(wpaths') = 2) => calls' = 1
            /\ (lastOp = "read" /\ reads = "more" /\ Cardinality(wpaths) = 2) => calls' = 0]_vars

\* C14 (snapshot isolation): a mutation or a write leaves the storage object
\* as it was; and with a container watched ('data'), when exactly one
\* operation between two consecutive reads changed a value nested inside
\* the container in place, the second read invokes get.
C14_SnapshotIsolation ==
    [][/\ lastOp' \in {"mutate", "write"} => prev' = prev
       /\ (lastOp' = "read" /\ reads # "none" /\ getter = "derived"
             /\ dependencies = <<Str(PathData)>> /\ wchg' = "one" /\ chg' = "inside")
            => calls' = 1]_vars

\* C16 (failed recompute is retried): when a read of a watched property
\* follows a change of a watched path, invokes get and get raises, a read
\* right after it invokes get again.
C16_FailedRecomputeRetried ==
    [][(lastOp = "read" /\ watch /\ wchg # "none" /\ calls = 1 /\ err.kind = "GetterError"
          /\ lastOp' = "read")
         => calls' = 1]_vars

\* C17 (absent sentinel): for a watched property whose get returns undefined
\* or null, every read invokes get, whether or not a dependency changed, and
\* leaves every dependency snapshot as it was.
C17_AbsentSentinel ==
    [][(lastOp' = "read" /\ watch /\ getter \in {"null", "undefined"})
         => /\ calls' = 1
            /\ \A i \in 1..Len(dependencies) :
                  identical(get(prev', dependencies[i].v), get(prev, dependencies[i].v))]_vars

\* C15 (per-property isolation): with two computed properties on one object
\* watching a common path, a read of one leaves the other's storage object
\* as it was; and when exactly one operation changed the common path since
\* a property was last read (or installed), the next read of that property
\* invokes its get, whichever property is read first.
C15_PerPropertyIsolation ==
    [][/\ lastOp' = "read" => second' = second
       /\ lastOp' = "read2" => prev' = prev
       /\ (lastOp' = "read" /\ chgP = "one") => calls' = 1
       /\ (lastOp' = "read2" /\ chgQ = "one") => calls' = 1]_vars

====
